---- MODULE Spec2Model ----
(***************************************************************************)
(* State-machine model of the three Streamlit chat front-ends of the       *)
(* repository: double.py (routed, quick prompts), try2.py (single          *)
(* assistant, session thread) and new-frontend.py (routed, styled).        *)
(*                                                                         *)
(* One Streamlit script run is a sequence of steps: a user event at        *)
(* pc = "idle" starts a run at pc = "main"; every call to the hosted       *)
(* assistant API or the Sheets API is one step whose outcome (success or   *)
(* an exception) is chosen by the environment.  st.rerun() ends the run    *)
(* and starts the next one at pc = "main" without an event.                *)
(*                                                                         *)
(* Texts are sequences of tokens.  The labeler's reply is a sequence of    *)
(* single characters, so that int() is modelled on what it parses.         *)
(***************************************************************************)
EXTENDS Integers, Sequences, FiniteSets, TLC

VARIABLES
    variant,        \* which script is deployed
    service,        \* get_google_sheets_service() returned a service (cached)
    authenticated,  \* st.session_state.authenticated
    sunet_id,       \* st.session_state.sunet_id
    msgsSet,        \* "messages" in st.session_state
    messages,       \* st.session_state.messages
    processing,     \* "processing" in st.session_state (new-frontend.py)
    sheet,          \* rows of the Logs sheet, row 1 first
    threads,        \* hosted threads the program still holds, by id: 1 is the
                    \* cached thread, 2 the thread of the query in hand
    runs,           \* runs started for the query in hand: [thread, assistant]
    runStatus,      \* status of the run in flight, held by the backend
    pc,             \* position of the script run
    ev,             \* widget event the script run is processing
    prompt,         \* text of the query being handled
    path,           \* which code handles the query
    hop,            \* 1: labeler (or the single assistant), 2: downstream
    curThread,      \* id of the thread of the round trip
    msgId,          \* try2.py: position of the submitted message in its thread
    observed,       \* status seen by the last poll of the round trip
    polls,          \* polls of the current run that did not end the loop
    labelText,      \* value run_assistant returned for the labeler
    label,          \* int(labelText)
    nextAssistant,  \* assistant chosen for the second hop
    response,       \* reply (or error text) of the query
    category,       \* assistant_type of the query
    exc,            \* exception being propagated, "none" when none
    escaped,        \* exception that left main_app in the last script run
    outcome,        \* what the user got for the last query
    page,           \* what the last finished script run rendered
    logOutcome,     \* last log_interaction call: [called, ok, result, raised]
    runFailed,      \* a poll of the last query saw the status 'failed'
    nOps,           \* queries so far
    cleared,        \* "clicked" once Clear Chat History was used, "next_query"
                    \* from the start of the first query after it, else "no"
    calls,          \* sheet harness: calls of initialize_sheet_if_needed so far
    first,          \* sheet harness: the sheet after the first call
    sessions,       \* two sessions of one process: the round trip of each
    hosted          \* two sessions of one process: the hosted threads, with
                    \* the session each message and each run came from

vars == << variant, service, authenticated, sunet_id, msgsSet, messages,
           processing, sheet, threads, runs, runStatus, pc, ev, prompt, path,
           hop, curThread, msgId, observed, polls, labelText, label,
           nextAssistant, response, category, exc, escaped, outcome, page,
           logOutcome, runFailed, nOps, cleared, calls, first, sessions,
           hosted >>

configVars == << variant, service >>
sessionVars == << authenticated, sunet_id, msgsSet, messages, processing >>
backendVars == << threads, runs, runStatus >>
controlVars == << pc, ev, page >>
\* the locals of the handler of a query
localVars == << prompt, path, hop, curThread, msgId, observed, polls,
                labelText, label, nextAssistant, response, category >>
ghostVars == << escaped, outcome, logOutcome, runFailed, nOps, cleared >>
sharedVars == << sessions, hosted >>
harnessVars == << calls, first, sessions, hosted >>

----------------------------------------------------------------------------
(* Bounds of the model *)

\* queries accepted in one behaviour
MaxOps == 2
\* polls of one run that may find it unfinished before the model stops counting
MaxPolls == 1
\* length of the sheets the sheet harness starts from
MaxSheetLen == 2
\* calls of initialize_sheet_if_needed in the sheet harness
MaxCalls == 3
\* pieces of the raw responses the cleaning is applied to
MaxRawLen == 6
\* queries of each of the two sessions that share a process
MaxSessionQueries == 2

----------------------------------------------------------------------------
(* Texts *)

Variants == {"double", "try2", "newfrontend"}

Routed == variant \in {"double", "newfrontend"}

\* what the user may type in the login form
LoginInputs == { <<>>, <<" ">>, <<"a">>, <<" ", "a", " ">> }

\* what the user may type in the chat input
ChatInputs == { <<"hello">> }

prompt1 == <<"What classes should I take as a History major?">>
prompt2 == <<"What classes can I take to fulfill WAYS A-II?">>
prompt3 == <<"What are some afternoon classes I can take?">>
QuickPrompts == {prompt1, prompt2, prompt3}

\* replies the labeler assistant may give, character by character
LabelerReplies == { <<"1">>, <<"2">>, <<" ", "1">>, <<"a">> }

\* Pieces of a reply: "[" stands for the opening lenticular bracket of a
\* source marker, "+source]" for the dagger, the word source and the closing
\* bracket, StyleTag for the style tag; digits, ":" and blanks are themselves.
StyleTag == "<userStyle>Normal</userStyle>"

\* replies of the answering assistants: a word and the source marker 4:0
AnswerReplies == { <<"answer", "[", "4", ":", "0", "+source]">> }

Whitespace == {" ", "\n", "\t"}
Digits == {"0", "1", "2", "3", "4", "5", "6", "7", "8", "9"}

RECURSIVE LStrip(_)
LStrip(s) == IF s # <<>> /\ Head(s) \in Whitespace THEN LStrip(Tail(s)) ELSE s

RECURSIVE RStrip(_)
RStrip(s) ==
    IF s # <<>> /\ s[Len(s)] \in Whitespace
    THEN RStrip(SubSeq(s, 1, Len(s) - 1))
    ELSE s

\* str.strip()
Strip(s) == RStrip(LStrip(s))

DigitValue(c) ==
    CASE c = "0" -> 0 [] c = "1" -> 1 [] c = "2" -> 2 [] c = "3" -> 3
      [] c = "4" -> 4 [] c = "5" -> 5 [] c = "6" -> 6 [] c = "7" -> 7
      [] c = "8" -> 8 [] c = "9" -> 9

\* the digits of an int() literal once blanks and the sign are taken off
Unsigned(s) ==
    LET t == Strip(s)
    IN  IF t # <<>> /\ t[1] \in {"+", "-"} THEN Tail(t) ELSE t

\* int(s) succeeds: blanks, an optional sign, digits with single underscores
\* between digits
IsIntLiteral(s) ==
    LET u == Unsigned(s)
    IN  /\ u # <<>>
        /\ \A i \in 1..Len(u) :
              \/ u[i] \in Digits
              \/ /\ u[i] = "_"
                 /\ 1 < i /\ i < Len(u)
                 /\ u[i - 1] \in Digits /\ u[i + 1] \in Digits

RECURSIVE DigitsValue(_, _)
DigitsValue(u, acc) ==
    IF u = <<>> THEN acc
    ELSE IF Head(u) = "_" THEN DigitsValue(Tail(u), acc)
    ELSE DigitsValue(Tail(u), 10 * acc + DigitValue(Head(u)))

\* int(s), for a literal
PyInt(s) ==
    LET t == Strip(s)
        v == DigitsValue(Unsigned(s), 0)
    IN  IF t # <<>> /\ t[1] = "-" THEN 0 - v ELSE v

\* a plausible slip: every positive label goes to the scheduler
ChooseCategoryPositive(n) == IF n >= 1 THEN "Course Scheduler" ELSE "Admin Info"

\* the conditional expressions of process_user_query
ChooseAssistant(n) == IF n = 1 THEN "course_scheduler" ELSE "admin_info"

ChooseCategory(n) == IF n = 1 THEN "Course Scheduler" ELSE "Admin Info"

ErrPrefix == <<"Error processing query: ">>

\* str(e)
ExcText(e, text) ==
    CASE e = "RunFailed" -> <<"Assistant run failed">>
      [] e = "ValueError" -> <<"invalid literal for int() with base 10: ">> \o text
      [] OTHER -> <<"API error">>

Msg(role, content) == [role |-> role, content |-> content]

\* a history that keeps only the latest turn in its last slot
ReplaceLastEntry(h, m) == IF h = <<>> THEN <<m>> ELSE [h EXCEPT ![Len(h)] = m]

\* st.session_state.messages.append(...)
AppendToHistory(h, m) == Append(h, m)

----------------------------------------------------------------------------
(* The Logs sheet *)

\* the headers list of initialize_sheet_if_needed
HeaderCells ==
    <<"Timestamp", "SUNet ID", "User Message", "Assistant Response",
      "Message Length", "Response Length">>
    \o (IF variant = "try2" THEN <<>> ELSE <<"Assistant Type">>)

HeaderRow == [kind |-> "header", cells |-> HeaderCells]

EmptyRow == [kind |-> "empty", cells |-> <<>>]

\* a row that some other writer left in the sheet
OtherRow == [kind |-> "other", cells |-> <<"x">>]

\* values().get of row 1 answers with a 'values' key
Row1HasValues(s) == s # <<>> /\ s[1].kind # "empty"

\* values().update of row 1
UpdateRow1(s, row) == IF s = <<>> THEN <<row>> ELSE [s EXCEPT ![1] = row]

\* values().append with INSERT_ROWS: the row goes below the last row
AppendRow(s, row) == Append(s, row)

\* a plausible slip: the header is appended without looking at row 1
InitializeSheetAppendingHeader(svc, s, getOk, updOk) ==
    IF svc /\ getOk /\ updOk THEN AppendRow(s, HeaderRow) ELSE s

\* initialize_sheet_if_needed: the sheet it leaves.  getOk, updOk: the get
\* and the update do not raise; whatever raises is logged and swallowed.
InitializeSheetIfNeeded(svc, s, getOk, updOk) ==
    IF ~svc THEN s
    ELSE IF ~getOk THEN s
    ELSE IF Row1HasValues(s) THEN s
    ELSE IF ~updOk THEN s
    ELSE UpdateRow1(s, HeaderRow)

\* a row that leaves the two length columns out
LogRowWithoutLengths(sunet, userMessage, assistantResponse, assistantType) ==
    [kind |-> "log",
     cells |-> <<"now", sunet, userMessage, assistantResponse, assistantType>>]

\* row_data of log_interaction; current_time is the token "now"
LogRow(sunet, userMessage, assistantResponse, assistantType) ==
    [kind |-> "log",
     cells |-> <<"now", sunet, userMessage, assistantResponse,
                 Len(userMessage), Len(assistantResponse)>>
               \o (IF variant = "try2" THEN <<>> ELSE <<assistantType>>)]

\* a plausible slip: the append sits outside the try block
LogInteractionUncaught(svc, s, row, appendOk) ==
    IF ~svc THEN [sheet |-> s, result |-> FALSE, raised |-> FALSE]
    ELSE IF appendOk
         THEN [sheet |-> AppendRow(s, row), result |-> TRUE, raised |-> FALSE]
         ELSE [sheet |-> s, result |-> FALSE, raised |-> TRUE]

\* log_interaction: the sheet it leaves, what it returns, whether it raises
LogInteraction(svc, s, row, appendOk) ==
    IF ~svc THEN [sheet |-> s, result |-> FALSE, raised |-> FALSE]
    ELSE IF appendOk
         THEN [sheet |-> AppendRow(s, row), result |-> TRUE, raised |-> FALSE]
         ELSE [sheet |-> s, result |-> FALSE, raised |-> FALSE]

NoLog == [called |-> FALSE, ok |-> FALSE, result |-> FALSE, raised |-> FALSE]

NoFirst == [done |-> FALSE, ok |-> FALSE, start |-> <<>>, sheet |-> <<>>]

\* the user sessions that one server process runs side by side
Sessions == {1, 2}

\* a session with no query in hand
IdleSession ==
    [pc |-> "main", thread |-> 0, run |-> 0, hop |-> 1, queries |-> 0]

----------------------------------------------------------------------------
(* Session gate *)

\* a stricter gate: one-character identifiers are turned away
ValidateSunetLong(id) == Len(id) > 1

\* validate_sunet
ValidateSunet(id) == IF variant = "try2" THEN id # <<>> ELSE TRUE

\* the welcome message of new-frontend.py
WelcomeMsg == Msg("assistant", <<"Hi ">> \o sunet_id \o <<"! I'm your Stanford Course Helper.">>)

ApologyMsg ==
    Msg("assistant", <<"I'm sorry, I encountered an error processing your request. Please try again later.">>)

----------------------------------------------------------------------------
(* Initial state: the first script run has rendered the login page *)

InitLocals ==
    /\ prompt = <<>>
    /\ path = "none"
    /\ hop = 1
    /\ curThread = 0
    /\ msgId = 0
    /\ observed = "none"
    /\ polls = 0
    /\ labelText = <<>>
    /\ label = 0
    /\ nextAssistant = "none"
    /\ response = <<>>
    /\ category = "none"

\* nothing has run yet: no hosted thread, no query, nothing rendered
InitIdle ==
    /\ threads = <<>>
    /\ runs = <<>>
    /\ runStatus = "none"
    /\ ev = "none"
    /\ page = "login"
    /\ InitLocals
    /\ exc = "none"
    /\ escaped = "none"
    /\ outcome = "none"
    /\ logOutcome = NoLog
    /\ runFailed = FALSE
    /\ nOps = 0
    /\ cleared = "no"
    /\ calls = 0
    /\ first = NoFirst
    /\ sessions = [s \in Sessions |-> IdleSession]
    /\ hosted = <<>>

InitRest ==
    /\ authenticated = FALSE
    /\ sunet_id = <<>>
    /\ msgsSet = FALSE
    /\ messages = <<>>
    /\ processing = FALSE
    /\ InitIdle

Init ==
    /\ variant \in Variants
    /\ service \in BOOLEAN
    /\ sheet \in { <<>>, <<HeaderRow>> }
    /\ pc = "idle"
    /\ InitRest

\* the script run ends having rendered p
EndRun(p) == pc' = "idle" /\ ev' = "none" /\ page' = p

\* st.rerun()
Rerun == pc' = "main" /\ ev' = "none" /\ page' = page

\* the handler of the query is left: its locals are gone, and with them the
\* thread and the runs of the query
EndQuery ==
    /\ prompt' = <<>>
    /\ path' = "none"
    /\ hop' = 1
    /\ curThread' = 0
    /\ msgId' = 0
    /\ observed' = "none"
    /\ polls' = 0
    /\ labelText' = <<>>
    /\ label' = 0
    /\ nextAssistant' = "none"
    /\ response' = <<>>
    /\ category' = "none"
    /\ exc' = "none"
    /\ threads' = IF threads = <<>> THEN threads ELSE <<threads[1]>>
    /\ runs' = <<>>
    /\ runStatus' = "none"

----------------------------------------------------------------------------
(* User events: each starts a script run *)

\* the login form is submitted; login_page handles it in the same run
LoginSubmit(text) ==
    /\ pc = "idle" /\ ~authenticated /\ page \in {"login", "login_error"}
    /\ LET id == Strip(text)
       IN  IF ValidateSunet(id)
           THEN /\ authenticated' = TRUE
                /\ sunet_id' = id
                /\ Rerun
           ELSE \* st.error("Invalid SUNet ID. Please try again.")
                /\ UNCHANGED << authenticated, sunet_id >>
                /\ EndRun("login_error")
    /\ UNCHANGED << configVars, msgsSet, messages, processing, sheet,
                    backendVars, localVars, exc, ghostVars, harnessVars >>

StartRun(e) ==
    /\ pc = "idle" /\ authenticated
    /\ pc' = "main" /\ ev' = e /\ page' = page
    /\ UNCHANGED << configVars, sessionVars, sheet, backendVars, path, hop,
                    curThread, msgId, observed, polls, labelText, label,
                    nextAssistant, response, category, exc, escaped, outcome,
                    logOutcome, runFailed, cleared, harnessVars >>

\* st.chat_input returns text
ChatInput(text) ==
    /\ page = "chat" /\ nOps < MaxOps
    /\ StartRun("chat")
    /\ prompt' = text
    /\ nOps' = nOps + 1

\* one of the three buttons, shown while the history is empty (double.py)
QuickPrompt(text) ==
    /\ variant = "double" /\ page = "chat" /\ messages = <<>>
    /\ nOps < MaxOps
    /\ StartRun("quick")
    /\ prompt' = text
    /\ nOps' = nOps + 1

LogoutClick ==
    /\ page = "chat"
    /\ StartRun("logout")
    /\ UNCHANGED << prompt, nOps >>

ClearClick ==
    /\ page = "chat"
    /\ StartRun("clear")
    /\ UNCHANGED << prompt, nOps >>

\* the user reruns the script without touching a widget
RerunClick ==
    /\ StartRun("none")
    /\ UNCHANGED << prompt, nOps >>

----------------------------------------------------------------------------
(* The script run *)

\* "Main flow control" and the head of main_app: the cached assistants and
\* thread, the Sheets service, initialize_sheet_if_needed
Main(getOk, updOk) ==
    /\ pc = "main"
    /\ escaped' = "none"
    /\ IF ~authenticated
       THEN /\ EndRun("login")
            /\ UNCHANGED << sheet, threads >>
       ELSE /\ threads' = IF threads = <<>> THEN << <<>> >> ELSE threads
            /\ IF variant # "double" /\ ~service
               THEN /\ EndRun("sheets_error")
                    /\ UNCHANGED sheet
               ELSE /\ sheet' = InitializeSheetIfNeeded(service, sheet, getOk, updOk)
                    /\ pc' = "body"
                    /\ UNCHANGED << ev, page >>
    /\ UNCHANGED << configVars, sessionVars, runs, runStatus, localVars, exc,
                    outcome, logOutcome, runFailed, nOps, cleared,
                    harnessVars >>

\* the query enters the round trip at position p, on thread th if it has one
StartQuery(how, p, th) ==
    /\ path' = how
    /\ pc' = p
    /\ curThread' = th
    /\ outcome' = "pending"
    /\ logOutcome' = NoLog
    /\ runFailed' = FALSE
    /\ cleared' = IF cleared = "clicked" THEN "next_query" ELSE "no"
    /\ UNCHANGED << ev, page, hop, msgId, observed, polls, labelText, label,
                    nextAssistant, response, category >>

NoQuery == UNCHANGED << localVars, outcome, logOutcome, runFailed, cleared >>

\* a Logout that forgets to reset the history
KeptHistory == messages

\* st.session_state.messages = [] of the Logout button
LoggedOutHistory == <<>>

\* st.session_state.messages = [] of the Clear Chat History button
ClearedHistory == <<>>

\* the Logout and Clear Chat History buttons
SidebarButtons ==
    \/ /\ ev = "logout"
       /\ authenticated' = FALSE
       /\ messages' = LoggedOutHistory
       /\ msgsSet' = TRUE
       /\ Rerun
       /\ cleared' = "no"
       /\ UNCHANGED << localVars, outcome, logOutcome, runFailed >>
       /\ UNCHANGED << sunet_id, processing >>
    \/ /\ ev = "clear"
       /\ messages' = ClearedHistory
       /\ msgsSet' = TRUE
       /\ pc' = "clear_thread"
       /\ cleared' = "clicked"
       /\ UNCHANGED << localVars, outcome, logOutcome, runFailed >>
       /\ UNCHANGED << authenticated, sunet_id, processing, ev, page >>

\* main_app of double.py from the chat history on
BodyDouble ==
    /\ pc = "body" /\ variant = "double"
    /\ LET msgs == IF msgsSet THEN messages ELSE <<>>
       IN  \/ /\ ev = "quick"
              /\ messages' = AppendToHistory(msgs, Msg("user", prompt))
              /\ msgsSet' = TRUE
              /\ StartQuery("quick", "create_thread", 0)
              /\ UNCHANGED << authenticated, sunet_id, processing, prompt >>
           \/ /\ ev = "chat"
              /\ messages' = AppendToHistory(msgs, Msg("user", prompt))
              /\ msgsSet' = TRUE
              /\ StartQuery("typed", "create_thread", 0)
              /\ UNCHANGED << authenticated, sunet_id, processing, prompt >>
           \/ SidebarButtons
           \/ /\ ev = "none"
              /\ messages' = msgs
              /\ msgsSet' = TRUE
              /\ EndRun("chat")
              /\ NoQuery
              /\ UNCHANGED << authenticated, sunet_id, processing >>
    /\ UNCHANGED << configVars, sheet, backendVars, exc, escaped, nOps,
                    harnessVars >>

\* main_app of try2.py from the chat history on
BodyTry2 ==
    /\ pc = "body" /\ variant = "try2"
    /\ LET msgs == IF msgsSet THEN messages ELSE <<>>
       IN  \/ /\ ev = "chat"
              /\ messages' = AppendToHistory(msgs, Msg("user", prompt))
              /\ msgsSet' = TRUE
              /\ StartQuery("inline", "send_msg", 1)
              /\ UNCHANGED << authenticated, sunet_id, processing, prompt >>
           \/ SidebarButtons
           \/ /\ ev = "none"
              /\ messages' = msgs
              /\ msgsSet' = TRUE
              /\ EndRun("chat")
              /\ NoQuery
              /\ UNCHANGED << authenticated, sunet_id, processing >>
    /\ UNCHANGED << configVars, sheet, backendVars, exc, escaped, nOps,
                    harnessVars >>

\* main_app of new-frontend.py from the sidebar on
BodyNewFrontend ==
    /\ pc = "body" /\ variant = "newfrontend"
    /\ LET msgs == IF msgsSet THEN messages ELSE <<WelcomeMsg>>
       IN  \/ SidebarButtons
           \/ /\ ev = "chat"
              /\ messages' = AppendToHistory(msgs, Msg("user", prompt))
              /\ msgsSet' = TRUE
              /\ Rerun
              /\ prompt' = <<>>
              /\ UNCHANGED << path, hop, curThread, msgId, observed, polls,
                              labelText, label, nextAssistant, response,
                              category, outcome, logOutcome, runFailed,
                              cleared >>
              /\ UNCHANGED << authenticated, sunet_id, processing >>
           \/ /\ ev = "none"
              /\ messages' = msgs
              /\ msgsSet' = TRUE
              /\ IF /\ msgs # <<>>
                    /\ msgs[Len(msgs)].role = "user"
                    /\ ~processing
                 THEN /\ processing' = TRUE
                      /\ prompt' = msgs[Len(msgs)].content
                      /\ StartQuery("typed", "create_thread", 0)
                 ELSE /\ EndRun("chat")
                      /\ NoQuery
                      /\ UNCHANGED processing
              /\ UNCHANGED << authenticated, sunet_id >>
    /\ UNCHANGED << configVars, sheet, backendVars, exc, escaped, nOps,
                    harnessVars >>

\* Clear Chat History: client.beta.threads.create(), then st.rerun(); the new
\* thread is bound to a local of main_app and is gone with the run
ClearThread(ok) ==
    /\ pc = "clear_thread"
    /\ IF ok
       THEN /\ Rerun
            /\ UNCHANGED escaped
       ELSE /\ escaped' = "APIError"
            /\ EndRun("crashed")
    /\ UNCHANGED << configVars, sessionVars, sheet, backendVars, localVars,
                    exc, outcome, logOutcome, runFailed, nOps, cleared,
                    harnessVars >>

----------------------------------------------------------------------------
(* The assistant round trip *)

Terminal == {"completed", "failed", "expired"}

\* the statuses on which the wait loop of the variant goes round again
PollsAgain(st) ==
    IF Routed THEN st \notin {"completed", "failed"}
    ELSE st \in {"queued", "in_progress"}

\* a plausible slip: messages.list in ascending order
OldestMessageText(thread) == thread[1].content

\* messages.list(order="desc", limit=1).data[0].content[0].text.value
LatestMessageText(thread) == thread[Len(thread)].content

\* a plausible slip: only the failure of a run is handled
CatchesRunFailureOnly(e) == e = "RunFailed"

\* "except Exception" of process_user_query: what it catches
PuqCatches(e) == e \in {"APIError", "RunFailed", "ValueError"}

\* the last position of the run of digits that starts at k; k - 1 if none
RECURSIVE DigitRunEnd(_, _)
DigitRunEnd(s, k) ==
    IF k <= Len(s) /\ s[k] \in Digits THEN DigitRunEnd(s, k + 1) ELSE k - 1

\* where the match of the pattern of the source marker that starts at i
\* ends; 0 when the pattern does not match at i
MarkerEnd(s, i) ==
    IF i > Len(s) \/ s[i] # "[" THEN 0
    ELSE LET a == DigitRunEnd(s, i + 1)
         IN  IF a < i + 1 \/ a + 1 > Len(s) \/ s[a + 1] # ":" THEN 0
             ELSE LET b == DigitRunEnd(s, a + 2)
                  IN  IF b < a + 2 \/ b + 1 > Len(s) \/ s[b + 1] # "+source]"
                      THEN 0
                      ELSE b + 1

\* re.sub(pattern, '', s) from position i on: the matches are taken from left
\* to right and do not overlap
RECURSIVE RemoveMarkersFrom(_, _)
RemoveMarkersFrom(s, i) ==
    IF i > Len(s) THEN <<>>
    ELSE IF MarkerEnd(s, i) > 0 THEN RemoveMarkersFrom(s, MarkerEnd(s, i) + 1)
    ELSE <<s[i]>> \o RemoveMarkersFrom(s, i + 1)

RemoveMarkers(s) == RemoveMarkersFrom(s, 1)

\* .replace("<userStyle>Normal</userStyle>", "")
RemoveStyleTags(s) == SelectSeq(s, LAMBDA t : t # StyleTag)

\* cleaned_response of new-frontend.py: re.sub, then replace, then strip
CleanResponse(r) == Strip(RemoveStyleTags(RemoveMarkers(r)))

ThrowTo(e) == exc' = e /\ pc' = "raise"

\* client.beta.threads.create() of process_user_query, handle_prompt_click
CreateThread(ok) ==
    /\ pc = "create_thread"
    /\ IF ok
       THEN /\ threads' = Append(threads, <<>>)
            /\ curThread' = Len(threads) + 1
            /\ pc' = "send_msg"
            /\ UNCHANGED exc
       ELSE /\ ThrowTo("APIError")
            /\ UNCHANGED << threads, curThread >>
    /\ UNCHANGED << configVars, sessionVars, sheet, runs, runStatus, ev, page,
                    prompt, path, hop, msgId, observed, polls, labelText,
                    label, nextAssistant, response, category, ghostVars,
                    harnessVars >>

\* client.beta.threads.messages.create(role="user", content=...)
SendMsg(ok) ==
    /\ pc = "send_msg"
    /\ IF ok
       THEN /\ threads' = [threads EXCEPT
                              ![curThread] = Append(@, Msg("user", prompt))]
            /\ msgId' = Len(threads[curThread]) + 1
            /\ pc' = "run_create"
            /\ UNCHANGED exc
       ELSE /\ ThrowTo("APIError")
            /\ UNCHANGED << threads, msgId >>
    /\ UNCHANGED << configVars, sessionVars, sheet, runs, runStatus, ev, page,
                    prompt, path, hop, curThread, observed, polls, labelText,
                    label, nextAssistant, response, category, ghostVars,
                    harnessVars >>

\* a handler that sends the query to a downstream assistant at once
RunsDownstreamAtOnce == IF ~Routed THEN "assistant" ELSE ChooseAssistant(label)

\* the assistant of the run about to start
RunAssistantId ==
    IF ~Routed THEN "assistant"
    ELSE IF hop = 1 THEN "labeler" ELSE nextAssistant

\* client.beta.threads.runs.create
RunCreate(ok) ==
    /\ pc = "run_create"
    /\ IF ok
       THEN /\ runs' = Append(runs, [thread |-> curThread,
                                     assistant |-> RunAssistantId])
            /\ runStatus' = "queued"
            /\ observed' = "none"
            /\ polls' = 0
            /\ pc' = "poll"
            /\ UNCHANGED exc
       ELSE /\ ThrowTo("APIError")
            /\ UNCHANGED << runs, runStatus, observed, polls >>
    /\ UNCHANGED << configVars, sessionVars, sheet, threads, ev, page, prompt,
                    path, hop, curThread, msgId, labelText, label,
                    nextAssistant, response, category, ghostVars,
                    harnessVars >>

\* the hosted service picks the queued run up
BackendStart ==
    /\ pc = "poll" /\ runStatus = "queued"
    /\ runStatus' = "in_progress"
    /\ UNCHANGED << configVars, sessionVars, sheet, threads, runs,
                    controlVars, localVars, exc, ghostVars, harnessVars >>

\* what the assistant may reply
RepliesOf(assistant) ==
    IF assistant = "labeler" THEN LabelerReplies ELSE AnswerReplies

\* the hosted service ends the run: completed with a reply added to the
\* thread, or failed or expired with none
BackendFinish(st) ==
    /\ pc = "poll" /\ runStatus = "in_progress"
    /\ runStatus' = st
    /\ \E reply \in RepliesOf(runs[Len(runs)].assistant) :
          threads' = IF st = "completed"
                     THEN [threads EXCEPT
                              ![runs[Len(runs)].thread] =
                                  Append(@, Msg("assistant", reply))]
                     ELSE threads
    /\ UNCHANGED << configVars, sessionVars, sheet, runs, controlVars,
                    localVars, exc, ghostVars, harnessVars >>

\* one turn of the wait loop: runs.retrieve, the test of the status, the sleep
Poll(ok) ==
    /\ pc = "poll"
    /\ IF ~ok
       THEN /\ ThrowTo("APIError")
            /\ UNCHANGED << observed, polls, runFailed >>
       ELSE /\ observed' = runStatus
            /\ runFailed' = (runFailed \/ runStatus = "failed")
            /\ IF PollsAgain(runStatus)
               THEN /\ polls < MaxPolls
                    /\ polls' = polls + 1
                    /\ UNCHANGED << pc, exc >>
               ELSE IF Routed /\ runStatus = "failed"
               THEN /\ ThrowTo("RunFailed")
                    /\ UNCHANGED polls
               ELSE /\ pc' = "list"
                    /\ UNCHANGED << polls, exc >>
    /\ UNCHANGED << configVars, sessionVars, sheet, backendVars, ev, page,
                    prompt, path, hop, curThread, msgId, labelText, label,
                    nextAssistant, response, category, escaped, outcome,
                    logOutcome, nOps, cleared, harnessVars >>

\* messages.list and what becomes of its result
ListMessages(ok) ==
    /\ pc = "list"
    /\ IF ~ok
       THEN /\ ThrowTo("APIError")
            /\ UNCHANGED << backendVars, localVars, outcome, ev, page >>
       ELSE IF Routed
       THEN /\ IF hop = 1
               THEN /\ labelText' = LatestMessageText(threads[curThread])
                    /\ pc' = "parse"
                    /\ UNCHANGED response
               ELSE /\ response' = LatestMessageText(threads[curThread])
                    /\ pc' = "respond"
                    /\ UNCHANGED labelText
            /\ UNCHANGED << backendVars, prompt, path, hop, curThread, msgId,
                            observed, polls, label, nextAssistant, category,
                            exc, outcome, ev, page >>
       ELSE LET after == SubSeq(threads[curThread], msgId + 1,
                                Len(threads[curThread]))
            IN  IF after # <<>>
                THEN /\ response' = after[1].content
                     /\ pc' = "respond"
                     /\ UNCHANGED << backendVars, prompt, path, hop, curThread,
                                     msgId, observed, polls, labelText, label,
                                     nextAssistant, category, exc, outcome, ev,
                                     page >>
                ELSE /\ outcome' = "silent"
                     /\ EndRun("chat")
                     /\ EndQuery
    /\ UNCHANGED << configVars, sessionVars, sheet, escaped, logOutcome,
                    runFailed, nOps, cleared, harnessVars >>

\* label = int(...), next_assistant and assistant_type
ParseLabel ==
    /\ pc = "parse"
    /\ IF IsIntLiteral(labelText)
       THEN /\ label' = PyInt(labelText)
            /\ nextAssistant' = ChooseAssistant(PyInt(labelText))
            /\ category' = ChooseCategory(PyInt(labelText))
            /\ hop' = 2
            /\ pc' = "run_create"
            /\ UNCHANGED exc
       ELSE /\ ThrowTo("ValueError")
            /\ UNCHANGED << label, nextAssistant, category, hop >>
    /\ UNCHANGED << configVars, sessionVars, sheet, backendVars, ev, page,
                    prompt, path, curThread, msgId, observed, polls, labelText,
                    response, ghostVars, harnessVars >>

----------------------------------------------------------------------------
(* What becomes of the reply, and of an exception *)

\* the script run after the exchange is handled
AfterQuery ==
    /\ EndQuery
    /\ IF path = "quick" THEN Rerun /\ UNCHANGED processing
       ELSE IF variant = "newfrontend" THEN Rerun /\ processing' = FALSE
       ELSE EndRun("chat") /\ UNCHANGED processing

\* an exception travels up to the nearest handler
Raise ==
    /\ pc = "raise"
    /\ IF path = "typed" /\ exc # "LogError" /\ PuqCatches(exc)
       THEN \* except Exception of process_user_query
            /\ response' = ErrPrefix \o ExcText(exc, labelText)
            /\ category' = "Error"
            /\ exc' = "none"
            /\ pc' = "respond"
            /\ UNCHANGED << messages, processing, escaped, outcome, ev, page,
                            backendVars, prompt, path, hop, curThread, msgId,
                            observed, polls, labelText, label, nextAssistant >>
       ELSE IF path = "typed" /\ variant = "newfrontend"
       THEN \* except Exception of main_app, new-frontend.py
            /\ messages' = AppendToHistory(messages, ApologyMsg)
            /\ processing' = FALSE
            /\ outcome' = "apology"
            /\ Rerun
            /\ EndQuery
            /\ UNCHANGED escaped
       ELSE IF path \in {"typed", "inline"}
       THEN \* except Exception of main_app: st.error
            /\ outcome' = "st_error"
            /\ EndRun("chat")
            /\ EndQuery
            /\ UNCHANGED << messages, processing, escaped >>
       ELSE \* handle_prompt_click has no handler
            /\ escaped' = exc
            /\ outcome' = "uncaught"
            /\ EndRun("crashed")
            /\ EndQuery
            /\ UNCHANGED << messages, processing >>
    /\ UNCHANGED << configVars, authenticated, sunet_id, msgsSet, sheet,
                    logOutcome, runFailed, nOps, cleared, harnessVars >>

\* the reply, or the error text, is appended to the chat history
Respond ==
    /\ pc = "respond"
    /\ messages' = AppendToHistory(messages,
                                   Msg("assistant",
                                       IF variant = "newfrontend"
                                       THEN CleanResponse(response)
                                       ELSE response))
    /\ outcome' = IF category = "Error" THEN "error_response" ELSE "reply"
    /\ IF service
       THEN /\ pc' = "log"
            /\ UNCHANGED << ev, page, processing, backendVars, localVars, exc >>
       ELSE AfterQuery
    /\ UNCHANGED << configVars, authenticated, sunet_id, msgsSet, sheet,
                    escaped, logOutcome, runFailed, nOps, cleared,
                    harnessVars >>

\* the log_interaction call of the handler
Log(appendOk) ==
    /\ pc = "log"
    /\ LET r == LogInteraction(service, sheet,
                               LogRow(sunet_id, prompt, response, category),
                               appendOk)
       IN  /\ sheet' = r.sheet
           /\ logOutcome' = [called |-> TRUE, ok |-> appendOk,
                             result |-> r.result, raised |-> r.raised]
           /\ IF r.raised
              THEN /\ ThrowTo("LogError")
                   /\ UNCHANGED << ev, page, processing, backendVars,
                                   localVars >>
              ELSE AfterQuery
    /\ UNCHANGED << configVars, authenticated, sunet_id, msgsSet, messages,
                    escaped, outcome, runFailed, nOps, cleared, harnessVars >>

----------------------------------------------------------------------------
(* The specification of the application *)

Next ==
    \/ \E text \in LoginInputs : LoginSubmit(text)
    \/ \E text \in ChatInputs : ChatInput(text)
    \/ \E text \in QuickPrompts : QuickPrompt(text)
    \/ LogoutClick
    \/ ClearClick
    \/ RerunClick
    \/ \E getOk, updOk \in BOOLEAN : Main(getOk, updOk)
    \/ BodyDouble
    \/ BodyTry2
    \/ BodyNewFrontend
    \/ \E ok \in BOOLEAN : ClearThread(ok)
    \/ \E ok \in BOOLEAN : CreateThread(ok)
    \/ \E ok \in BOOLEAN : SendMsg(ok)
    \/ \E ok \in BOOLEAN : RunCreate(ok)
    \/ BackendStart
    \/ \E st \in Terminal : BackendFinish(st)
    \/ \E ok \in BOOLEAN : Poll(ok)
    \/ \E ok \in BOOLEAN : ListMessages(ok)
    \/ ParseLabel
    \/ Raise
    \/ Respond
    \/ \E ok \in BOOLEAN : Log(ok)

Spec == Init /\ [][Next]_vars

----------------------------------------------------------------------------
(* A script run that is cut short.  When the user touches a widget while   *)
(* the script is running, Streamlit stops the run at its next Streamlit    *)
(* command with an exception that "except Exception" does not catch, and   *)
(* starts the run of the new event.  In the processing block of            *)
(* new-frontend.py the commands that follow process_user_query are         *)
(* st.warning and loading_placeholder.empty(), both after the reply is     *)
(* stored and logged and before the 'processing' flag is deleted.          *)

\* widgets of the sidebar the user may touch while a query is handled
InterruptingEvents == {"logout", "clear"}

\* the log_interaction call of new-frontend.py in a run that is stopped at
\* loading_placeholder.empty() and followed by the run of event e
LogInterrupted(appendOk, e) ==
    /\ pc = "log" /\ variant = "newfrontend"
    /\ LET r == LogInteraction(service, sheet,
                               LogRow(sunet_id, prompt, response, category),
                               appendOk)
       IN  /\ sheet' = r.sheet
           /\ logOutcome' = [called |-> TRUE, ok |-> appendOk,
                             result |-> r.result, raised |-> r.raised]
    /\ EndQuery
    /\ pc' = "main" /\ ev' = e /\ page' = page
    /\ UNCHANGED << configVars, sessionVars, escaped, outcome, runFailed,
                    nOps, cleared, harnessVars >>

InterruptNext ==
    \/ Next
    \/ \E ok \in BOOLEAN, e \in InterruptingEvents : LogInterrupted(ok, e)

InterruptSpec == Init /\ [][InterruptNext]_vars

----------------------------------------------------------------------------
(* The sheet harness: initialize_sheet_if_needed and log_interaction applied *)
(* to sheets in any starting state                                          *)

HarnessRows == {HeaderRow, EmptyRow, OtherRow}

HarnessSheets ==
    {<<>>} \cup
    { s \in UNION { [1..n -> HarnessRows] : n \in 1..MaxSheetLen } :
        /\ s[Len(s)] # EmptyRow
        /\ \A i \in 2..Len(s) : s[i] # EmptyRow }

SheetInit ==
    /\ variant \in Variants
    /\ service \in BOOLEAN
    /\ sheet \in HarnessSheets
    /\ pc = "harness"
    /\ InitRest

\* one call of initialize_sheet_if_needed
HarnessCall(getOk, updOk) ==
    /\ pc = "harness" /\ calls < MaxCalls
    /\ sheet' = InitializeSheetIfNeeded(service, sheet, getOk, updOk)
    /\ calls' = calls + 1
    /\ first' = IF calls = 0
                THEN [done |-> TRUE,
                      ok |-> getOk /\ (Row1HasValues(sheet) \/ updOk),
                      start |-> sheet,
                      sheet |-> sheet']
                ELSE first
    /\ UNCHANGED << configVars, sessionVars, backendVars, controlVars,
                    localVars, exc, ghostVars, sharedVars >>

\* one call of log_interaction; the calls of the initialisation that follow
\* are counted afresh
HarnessAppend(appendOk) ==
    /\ pc = "harness" /\ Len(sheet) <= MaxSheetLen
    /\ LET r == LogInteraction(service, sheet,
                               LogRow(<<"a">>, <<"hello">>, <<"answer">>,
                                      "Admin Info"),
                               appendOk)
       IN  /\ sheet' = r.sheet
           /\ logOutcome' = [called |-> TRUE, ok |-> appendOk,
                             result |-> r.result, raised |-> r.raised]
    /\ calls' = 0
    /\ first' = NoFirst
    /\ UNCHANGED << configVars, sessionVars, backendVars, controlVars,
                    localVars, exc, escaped, outcome, runFailed, nOps,
                    cleared, sharedVars >>

SheetNext ==
    \/ \E getOk, updOk \in BOOLEAN : HarnessCall(getOk, updOk)
    \/ \E ok \in BOOLEAN : HarnessAppend(ok)

SheetSpec == SheetInit /\ [][SheetNext]_vars

----------------------------------------------------------------------------
(* The cleaning of new-frontend.py applied to any raw response *)

\* the pieces a raw response is made of
RawPieces == {"[", "4", ":", "+source]", StyleTag, " "}

RawResponses == UNION { [1..n -> RawPieces] : n \in 0..MaxRawLen }

CleanInit ==
    /\ variant = "newfrontend"
    /\ service = TRUE
    /\ sheet = <<HeaderRow>>
    /\ pc = "clean"
    /\ authenticated = TRUE /\ sunet_id = <<"a">>
    /\ msgsSet = TRUE /\ messages = <<>> /\ processing = TRUE
    /\ threads = <<>> /\ runs = <<>> /\ runStatus = "none"
    /\ ev = "none" /\ page = "chat"
    /\ prompt = <<"hello">> /\ path = "typed" /\ hop = 2 /\ curThread = 0
    /\ msgId = 0 /\ observed = "completed" /\ polls = 0
    /\ labelText = <<"2">> /\ label = 2 /\ nextAssistant = "admin_info"
    /\ response \in RawResponses
    /\ category = "Admin Info"
    /\ exc = "none" /\ escaped = "none" /\ outcome = "pending"
    /\ logOutcome = NoLog /\ runFailed = FALSE /\ nOps = 1
    /\ cleared = "no"
    /\ calls = 0 /\ first = NoFirst
    /\ sessions = [s \in Sessions |-> IdleSession]
    /\ hosted = <<>>

\* the response is cleaned and the cleaned text is stored in the history
CleanAndStore ==
    /\ pc = "clean"
    /\ messages' = AppendToHistory(messages,
                                   Msg("assistant", CleanResponse(response)))
    /\ pc' = "cleaned"
    /\ UNCHANGED << configVars, authenticated, sunet_id, msgsSet, processing,
                    sheet, backendVars, ev, page, localVars, exc, ghostVars,
                    harnessVars >>

\* the stored text is cleaned once more
CleanAgain ==
    /\ pc = "cleaned"
    /\ messages' = AppendToHistory(messages,
                         Msg("assistant",
                             CleanResponse(messages[Len(messages)].content)))
    /\ pc' = "cleaned_twice"
    /\ UNCHANGED << configVars, authenticated, sunet_id, msgsSet, processing,
                    sheet, backendVars, ev, page, localVars, exc, ghostVars,
                    harnessVars >>

CleanNext == CleanAndStore \/ CleanAgain

CleanSpec == CleanInit /\ [][CleanNext]_vars

----------------------------------------------------------------------------
(* Two sessions served by one process.  Streamlit runs the script of each  *)
(* session in a thread of its own, and st.cache_resource keeps one value   *)
(* for the whole process, so the steps of the two round trips interleave.  *)

EmptyThread == [msgs |-> <<>>, runs |-> <<>>]

SessionInit ==
    /\ variant \in Variants
    /\ service = TRUE
    /\ sheet = <<HeaderRow>>
    /\ pc = "sessions"
    /\ authenticated = TRUE
    /\ sunet_id = <<"a">>
    /\ msgsSet = TRUE
    /\ messages = <<>>
    /\ processing = FALSE
    /\ InitIdle

SessionFrame ==
    UNCHANGED << configVars, sessionVars, sheet, backendVars, controlVars,
                 localVars, exc, ghostVars, calls, first >>

\* the session moves to position p with thread t, run r and hop h
SessionGoes(s, p, t, r, h) ==
    sessions' = [sessions EXCEPT ![s] = [pc |-> p, thread |-> t, run |-> r,
                                         hop |-> h, queries |-> @.queries]]

\* the head of main_app: initialize_assistant(s) is cached for the process,
\* its thread is created by the first session that gets there
SessMain(s) ==
    /\ pc = "sessions" /\ sessions[s].pc = "main"
    /\ hosted' = IF hosted = <<>> THEN <<EmptyThread>> ELSE hosted
    /\ SessionGoes(s, "idle", 0, 0, 1)
    /\ SessionFrame

\* the user of the session sends a query: try2.py takes the cached thread,
\* process_user_query creates one
SessQuery(s) ==
    /\ pc = "sessions" /\ sessions[s].pc = "idle"
    /\ sessions[s].queries < MaxSessionQueries
    /\ sessions' = [sessions EXCEPT ![s] =
           [pc |-> IF Routed THEN "create_thread" ELSE "send_msg",
            thread |-> IF Routed THEN 0 ELSE 1,
            run |-> 0, hop |-> 1, queries |-> @.queries + 1]]
    /\ UNCHANGED hosted
    /\ SessionFrame

\* client.beta.threads.create()
SessCreateThread(s, ok) ==
    /\ pc = "sessions" /\ sessions[s].pc = "create_thread"
    /\ IF ok
       THEN /\ hosted' = Append(hosted, EmptyThread)
            /\ SessionGoes(s, "send_msg", Len(hosted) + 1, 0, 1)
       ELSE /\ SessionGoes(s, "idle", 0, 0, 1)
            /\ UNCHANGED hosted
    /\ SessionFrame

\* client.beta.threads.messages.create
SessSendMsg(s, ok) ==
    /\ pc = "sessions" /\ sessions[s].pc = "send_msg"
    /\ LET t == sessions[s].thread
       IN  IF ok
           THEN /\ hosted' = [hosted EXCEPT ![t].msgs =
                                  Append(@, [session |-> s, role |-> "user"])]
                /\ SessionGoes(s, "run_create", t, 0, 1)
           ELSE /\ SessionGoes(s, "idle", 0, 0, 1)
                /\ UNCHANGED hosted
    /\ SessionFrame

\* client.beta.threads.runs.create
SessRunCreate(s, ok) ==
    /\ pc = "sessions" /\ sessions[s].pc = "run_create"
    /\ LET t == sessions[s].thread
       IN  IF ok
           THEN /\ hosted' = [hosted EXCEPT ![t].runs =
                                  Append(@, [session |-> s,
                                             status |-> "queued"])]
                /\ SessionGoes(s, "poll", t, Len(hosted[t].runs) + 1,
                               sessions[s].hop)
           ELSE /\ SessionGoes(s, "idle", 0, 0, 1)
                /\ UNCHANGED hosted
    /\ SessionFrame

\* the hosted service completes the run of the session and adds the reply
SessBackendFinish(s) ==
    /\ pc = "sessions" /\ sessions[s].pc = "poll"
    /\ LET t == sessions[s].thread
           r == sessions[s].run
       IN  /\ hosted[t].runs[r].status = "queued"
           /\ hosted' = [hosted EXCEPT
                  ![t].runs[r].status = "completed",
                  ![t].msgs = Append(@, [session |-> s, role |-> "assistant"])]
    /\ UNCHANGED sessions
    /\ SessionFrame

\* the wait loop sees 'completed' and the reply is read: the labeler's reply
\* starts the second run on the same thread, any other reply ends the query
SessPoll(s) ==
    /\ pc = "sessions" /\ sessions[s].pc = "poll"
    /\ LET t == sessions[s].thread
       IN  /\ hosted[t].runs[sessions[s].run].status = "completed"
           /\ IF Routed /\ sessions[s].hop = 1
              THEN SessionGoes(s, "run_create", t, 0, 2)
              ELSE SessionGoes(s, "idle", 0, 0, 1)
    /\ UNCHANGED hosted
    /\ SessionFrame

SessionNext ==
    \E s \in Sessions :
        \/ SessMain(s)
        \/ SessQuery(s)
        \/ \E ok \in BOOLEAN : SessCreateThread(s, ok)
        \/ \E ok \in BOOLEAN : SessSendMsg(s, ok)
        \/ \E ok \in BOOLEAN : SessRunCreate(s, ok)
        \/ SessBackendFinish(s)
        \/ SessPoll(s)

SessionSpec == SessionInit /\ [][SessionNext]_vars

----------------------------------------------------------------------------
(* The claims *)

StartsWith(s, p) == Len(s) >= Len(p) /\ SubSeq(s, 1, Len(p)) = p

HasLogRow(s) == \E i \in 1..Len(s) : s[i].kind = "log"

\* C1: in process_user_query and in the quick-prompt handler, once the
\* labeler's reply has parsed as the integer n, the second run is started with
\* the course scheduler and the category is "Course Scheduler" when n = 1, and
\* with the admin-info assistant and "Admin Info" for every other n; the
\* category that is logged with a reply is the same one.
C1_RoutingAgrees ==
    /\ [](Routed /\ hop = 2 =>
            /\ IsIntLiteral(labelText)
            /\ label = 1 =>
                  /\ nextAssistant = "course_scheduler"
                  /\ category \in {"Course Scheduler", "Error"}
            /\ label # 1 =>
                  /\ nextAssistant = "admin_info"
                  /\ category \in {"Admin Info", "Error"}
            /\ Len(runs) = 2 => runs[2].assistant = nextAssistant
            /\ pc \in {"run_create", "poll", "list"} => category # "Error")
    /\ [][Routed /\ pc = "log" /\ category # "Error" /\ logOutcome'.result =>
            sheet'[Len(sheet')].cells[7] =
                (IF label = 1 THEN "Course Scheduler" ELSE "Admin Info")]_vars

\* C1 witness: the quick-prompt handler holds the reply of the scheduler, to
\* which the labeler's reply " 1" sent the query
C1_Witness ==
    /\ path = "quick" /\ pc = "respond" /\ hop = 2
    /\ labelText = <<" ", "1">> /\ label = 1
    /\ runs[2].assistant = "course_scheduler"
    /\ category = "Course Scheduler"

\* C2: process_user_query never raises: an exception of the thread creation,
\* of the message submission, of either run or of int() makes it return a
\* text starting with "Error processing query: " and the category "Error",
\* and no run is started after the exception.
C2_QueryNeverRaises ==
    /\ [](Routed => outcome \notin {"st_error", "apology"})
    /\ [][path = "typed" /\ pc = "raise" =>
            /\ pc' = "respond"
            /\ category' = "Error"
            /\ StartsWith(response', ErrPrefix)
            /\ runs' = runs]_vars
    /\ [][category = "Error" => Len(runs') <= Len(runs)]_vars

\* C2 witness: the labeler replied "a", and process_user_query has returned
\* the error text and "Error" after one run
C2_Witness ==
    /\ path = "typed" /\ pc = "respond" /\ category = "Error"
    /\ labelText = <<"a">>
    /\ response = ErrPrefix \o ExcText("ValueError", <<"a">>)
    /\ Len(runs) = 1

\* C3: in double.py no failed assistant run and no labeler reply that is not
\* an integer lets an exception escape into the top-level script run, on the
\* typed path and on the quick-prompt path.
C3_NoEscapeInDouble ==
    ~(variant = "double" /\ escaped \in {"RunFailed", "ValueError"})

\* C4: with no Sheets service the chat still works in every variant: the
\* script run of an authenticated user renders the chat.
C4_ChatWithoutSheets ==
    (authenticated /\ ~service /\ pc = "idle" /\ escaped = "none") =>
        page = "chat"

\* C5: log_interaction never raises; it returns False when the service is
\* missing or the append fails and True when the append succeeds; a failed
\* logging attempt leaves the chat history, reply included, as it was.
C5_LoggingIsBestEffort ==
    /\ [](logOutcome.called =>
            /\ ~logOutcome.raised
            /\ logOutcome.result = (service /\ logOutcome.ok))
    /\ [](\A ok \in BOOLEAN :
            LET r == LogInteraction(FALSE, sheet,
                                    LogRow(sunet_id, prompt, response, category),
                                    ok)
            IN  ~r.result /\ ~r.raised /\ r.sheet = sheet)
    /\ [][pc = "log" =>
            /\ messages' = messages
            /\ messages[Len(messages)].role = "assistant"
            /\ ~logOutcome'.result => sheet' = sheet]_vars

\* C5 witness: the append failed, log_interaction returned False, and the
\* reply is the last entry of the history
C5_Witness ==
    /\ logOutcome.called /\ ~logOutcome.ok /\ ~logOutcome.result
    /\ outcome = "reply"
    /\ messages # <<>>
    /\ messages[Len(messages)].role = "assistant"

\* C6: initialize_sheet_if_needed is idempotent: whatever the sheet it starts
\* from, calls that follow a call that went through leave the sheet as that
\* call left it, calls in a row leave a sheet that one call can leave, and an
\* empty sheet ends with exactly one header row.
C6_InitIsIdempotent ==
    /\ (first.done /\ first.ok) => sheet = first.sheet
    /\ first.done =>
          \E g, u \in BOOLEAN :
             sheet = InitializeSheetIfNeeded(service, first.start, g, u)
    /\ (first.done /\ first.ok /\ service /\ first.start = <<>>) =>
          sheet = <<HeaderRow>>
    /\ first.done =>
          Cardinality({i \in 1..Len(sheet) : sheet[i] = HeaderRow}) <=
          Cardinality({i \in 1..Len(first.start) : first.start[i] = HeaderRow})
              + (IF Row1HasValues(first.start) THEN 0 ELSE 1)

\* C6 witness: the empty sheet after two calls holds the header row once
C6_Witness ==
    /\ calls = 2 /\ first.done /\ first.ok /\ service
    /\ first.start = <<>>
    /\ sheet = <<HeaderRow>>

\* C7: a header row is ensured before the first logged row: whenever the sheet
\* holds a logged row, its row 1 is the header row.
C7_HeaderBeforeFirstRow == HasLogRow(sheet) => sheet[1] = HeaderRow

\* C8: the round trip does not loop indefinitely: while the run has reached
\* no terminal status, the wait loop is left (by a return or a raise) before
\* MaxPolls polls have found the run unfinished.
C8_PollingIsBounded ==
    (pc = "poll" /\ runStatus \notin Terminal) => polls < MaxPolls

\* C9: run_assistant returns a value only after a poll has seen 'completed',
\* the value is the text of the latest message of the thread, and on every
\* status other than 'completed' and 'failed' it polls again and returns
\* nothing.
C9_ReturnsLatestOnCompleted ==
    /\ [](Routed /\ pc = "parse" =>
            /\ observed = "completed"
            /\ labelText = threads[curThread][Len(threads[curThread])].content)
    /\ [](Routed /\ pc = "respond" /\ category # "Error" =>
            /\ observed = "completed"
            /\ response = threads[curThread][Len(threads[curThread])].content)
    /\ [][Routed /\ pc = "poll" /\ pc' = "list" => observed' = "completed"]_vars
    /\ [][Routed /\ pc = "poll" /\ pc' # "raise"
             /\ runStatus \notin {"completed", "failed"} =>
            /\ pc' = "poll"
            /\ labelText' = labelText
            /\ response' = response]_vars

\* C9 witness: the second run was polled twice, and run_assistant returned the
\* answer, the latest of the three messages of the thread
C9_Witness ==
    /\ Routed /\ pc = "respond" /\ hop = 2 /\ polls = 1
    /\ Len(threads[curThread]) = 3
    /\ response = <<"answer", "[", "4", ":", "0", "+source]">>

\* C10: in every variant a run that reaches 'failed' produces an error: the
\* query never ends with no reply and no error.
C10_FailedRunProducesError ==
    runFailed =>
        outcome \in {"pending", "error_response", "st_error", "uncaught",
                     "apology"}

\* C11: a login submission whose stripped identifier is not empty takes the
\* session flag from False to True in that very step and stores the stripped
\* input; a step raises the flag only if it is a login submission, and the
\* flag then stays up until a logout, so it is raised once per submission.
C11_LoginRaisesFlagOnce ==
    /\ [][\A text \in LoginInputs :
            (LoginSubmit(text) /\ Strip(text) # <<>>) =>
                /\ ~authenticated /\ authenticated'
                /\ sunet_id' = Strip(text)]_vars
    /\ [][(~authenticated /\ authenticated') =>
            \E text \in LoginInputs :
                LoginSubmit(text) /\ sunet_id' = Strip(text)]_vars
    /\ [][authenticated => ~(\E text \in LoginInputs : LoginSubmit(text))]_vars
    /\ [][(authenticated /\ ~authenticated') => ev = "logout"]_vars

\* C11 witness: " a " was submitted; the flag is up, "a" is stored, and the
\* rerun of the submission is about to start
C11_Witness ==
    /\ authenticated /\ sunet_id = <<"a">>
    /\ page = "login" /\ pc = "main" /\ ev = "none"

\* C12: the gate grants access only for a non-empty identifier: whenever the
\* session is authenticated the stored identifier is a non-empty text.
C12_AuthenticatedHasIdentifier == authenticated => sunet_id # <<>>

\* C13: the Logout action leaves authenticated False and the history empty;
\* the script run that follows renders the login page; the history stays
\* empty while nobody is logged in and is still empty when a later login
\* succeeds, so it holds no message of the earlier session.
C13_LogoutClearsSession ==
    /\ [][(pc = "body" /\ ev = "logout") =>
            /\ ~authenticated' /\ messages' = <<>>
            /\ pc' = "main" /\ ev' = "none"]_vars
    /\ [][(pc = "main" /\ ~authenticated) =>
            pc' = "idle" /\ page' = "login"]_vars
    /\ [](~authenticated => messages = <<>>)
    /\ [][(~authenticated /\ authenticated') => messages' = <<>>]_vars

\* C13 witness: an exchange was logged, the user logged out and logged in
\* again, and the history is empty
C13_Witness ==
    /\ authenticated /\ page = "login" /\ pc = "main"
    /\ msgsSet /\ messages = <<>>
    /\ HasLogRow(sheet)

IsPrefix(s, t) == Len(s) <= Len(t) /\ SubSeq(t, 1, Len(s)) = s

\* a step of the handling of a query: everything but the user's events, the
\* head of the script run and the Logout and Clear Chat History buttons
QueryStep ==
    \/ pc \notin {"idle", "main", "body", "clear_thread"}
    \/ pc = "body" /\ ev \in {"chat", "quick", "none"}

\* C14: a failed query leaves the session intact: no step of the handling of
\* a query, a failing round trip or a failing log call included, changes
\* authenticated or the stored identifier, and each such step leaves every
\* earlier history entry in place, unmodified and in order: the history is
\* extended at its tail only.
C14_FailureKeepsSession ==
    /\ [][QueryStep =>
            /\ authenticated' = authenticated
            /\ sunet_id' = sunet_id
            /\ IsPrefix(messages, messages')]_vars
    /\ [][(pc = "raise" \/ (pc = "log" /\ ~logOutcome'.result)
              \/ (pc = "list" /\ outcome' = "silent")) =>
            /\ authenticated' /\ sunet_id' = sunet_id
            /\ IsPrefix(messages, messages')
            /\ Len(messages') <= Len(messages) + 1]_vars

\* C14 witness: the second query of the session failed with st.error, and the
\* first exchange is still at the head of the history
C14_Witness ==
    /\ outcome = "st_error" /\ pc = "idle" /\ authenticated
    /\ Len(messages) = 3
    /\ messages[1].role = "user" /\ messages[2].role = "assistant"
    /\ messages[3].role = "user"

\* C15: the two hops of a routed query are independent round trips: the
\* downstream run has a context of its own, and the thread it runs against
\* does not hold the labeler's reply.
C15_HopsAreIndependent ==
    (Routed /\ Len(runs) = 2) =>
        /\ runs[2].thread # runs[1].thread
        /\ \A i \in 1..Len(threads[runs[2].thread]) :
              threads[runs[2].thread][i] # Msg("assistant", labelText)

NumLogRows(s) == Cardinality({i \in 1..Len(s) : s[i].kind = "log"})

\* C16: with the service available and the append succeeding, a handled
\* exchange appends exactly one row: the log call of the exchange appends the
\* row [timestamp, stored identifier, input text, output text, length of the
\* input, length of the output, category of the routing] (try2.py, which has
\* no routing, ends the row after the lengths); the input text is the user's
\* entry of the history; no other step adds or removes a logged row, the log
\* call is made once per query, and a reply is never left without its call.
C16_OneRowPerExchange ==
    /\ [][(pc = "log" /\ service /\ logOutcome'.ok) =>
            /\ sheet' = Append(sheet,
                  [kind |-> "log",
                   cells |-> <<"now", sunet_id, prompt, response,
                               Len(prompt), Len(response)>>
                             \o (IF Routed THEN <<category>> ELSE <<>>)])
            /\ messages[Len(messages) - 1] = Msg("user", prompt)
            /\ Routed => category \in {"Course Scheduler", "Admin Info",
                                       "Error"}]_vars
    /\ [][NumLogRows(sheet') # NumLogRows(sheet) =>
            /\ pc = "log" /\ ~logOutcome.called /\ logOutcome'.called
            /\ outcome \in {"reply", "error_response"}
            /\ NumLogRows(sheet') = NumLogRows(sheet) + 1]_vars
    /\ [][pc = "log" => pc' # "log" /\ logOutcome'.called]_vars
    /\ []((service /\ outcome \in {"reply", "error_response"}
              /\ pc \notin {"log"}) =>
            /\ logOutcome.called
            /\ logOutcome.ok => logOutcome.result)
    /\ [][(outcome # "pending" /\ outcome' = "pending") =>
            /\ ~logOutcome'.called
            /\ messages'[Len(messages')].role = "user"]_vars

\* C16 witness: new-frontend.py has handled one exchange and the sheet holds
\* the header and the one row of the exchange, seven cells wide
C16_Witness ==
    /\ variant = "newfrontend" /\ pc = "idle" /\ page = "chat"
    /\ outcome = "reply" /\ logOutcome.result
    /\ Len(messages) = 3
    /\ Len(sheet) = 2 /\ sheet[1] = HeaderRow
    /\ sheet[2].cells = <<"now", sunet_id, <<"hello">>,
                          <<"answer", "[", "4", ":", "0", "+source]">>,
                          1, 6, "Admin Info">>

HasMarker(s) == \E i \in 1..Len(s) : MarkerEnd(s, i) > 0

HasStyleTag(s) == \E i \in 1..Len(s) : s[i] = StyleTag

\* C17: the cleaned reply that new-frontend.py stores holds no source marker
\* and no style tag, whatever the raw response, and cleaning the stored text
\* again changes nothing.
C17_CleanedHasNoMarkers ==
    /\ (variant = "newfrontend" /\ pc \in {"cleaned", "cleaned_twice"}) =>
          /\ ~HasMarker(messages[1].content)
          /\ ~HasStyleTag(messages[1].content)
    /\ (variant = "newfrontend" /\ pc = "cleaned_twice") =>
          messages[2] = messages[1]

\* C18: the history alternates turns: no two consecutive entries of the
\* history have the role 'user'.
C18_TurnsAlternate ==
    \A i \in 1..(Len(messages) - 1) :
        ~(messages[i].role = "user" /\ messages[i + 1].role = "user")

\* a query of the session is in flight on its thread
InFlight(s) == sessions[s].pc \in {"send_msg", "run_create", "poll"}

\* the sessions whose messages and runs the hosted thread holds
SessionsOf(t) ==
    {t.msgs[i].session : i \in 1..Len(t.msgs)} \cup
    {t.runs[i].session : i \in 1..Len(t.runs)}

\* C19: the conversation context is never shared: with two sessions in one
\* process no thread holds messages or runs of more than one session, and no
\* two queries are in flight on the same thread at the same time.
C19_ThreadsNotShared ==
    /\ \A t \in 1..Len(hosted) : Cardinality(SessionsOf(hosted[t])) <= 1
    /\ \A s1, s2 \in Sessions :
          (s1 # s2 /\ InFlight(s1) /\ InFlight(s2)) =>
              sessions[s1].thread # sessions[s2].thread

\* C20: after Clear Chat History the history is empty, authenticated is as
\* it was, and the next query of the session goes to a thread created at or
\* after the clear: when its run is about to start, the thread holds the
\* message just submitted and none of the turns sent before the clear.
C20_ClearStartsNewThread ==
    /\ pc = "clear_thread" => (messages = <<>> /\ authenticated)
    /\ (cleared = "next_query" /\ pc = "run_create" /\ hop = 1) =>
          threads[curThread] = <<Msg("user", prompt)>>

Downstream == {"course_scheduler", "admin_info"}

\* C21: in the routed variants the downstream run is started only after a
\* poll has seen the labeler's run completed and its reply has been parsed as
\* an integer; while the query is at its first hop, a failed labeler run and
\* a reply that is no integer included, no downstream run exists; and a query
\* starts at most two runs.
C21_DownstreamAfterLabeler ==
    /\ [](Routed => Len(runs) <= 2)
    /\ [](Routed /\ hop = 1 =>
            /\ Len(runs) <= 1
            /\ \A i \in 1..Len(runs) : runs[i].assistant = "labeler")
    /\ [](Routed /\ Len(runs) = 2 =>
            /\ runs[1].assistant = "labeler"
            /\ runs[2].assistant \in Downstream
            /\ hop = 2
            /\ IsIntLiteral(labelText)
            /\ label = PyInt(labelText))
    /\ [][(Routed /\ Len(runs') > Len(runs) /\ Len(runs) = 1) =>
            /\ observed = "completed"
            /\ runStatus = "completed"
            /\ IsIntLiteral(labelText)
            /\ hop = 2
            /\ runs'[2].assistant = nextAssistant]_vars
    /\ [][(Routed /\ hop = 1 /\ pc \in {"poll", "parse"} /\ pc' = "raise") =>
            /\ runs' = runs
            /\ hop' = 1]_vars
    /\ [][(Routed /\ pc = "raise" /\ hop = 1) =>
            Len(runs') <= Len(runs) /\ pc' # "run_create"]_vars

\* C21 witness: the labeler replied "2", and the run of the admin-info
\* assistant is the second run of the query
C21_Witness ==
    /\ Routed /\ pc = "poll" /\ hop = 2
    /\ labelText = <<"2">>
    /\ Len(runs) = 2 /\ runs[2].assistant = "admin_info"

\* C22: for every logged exchange the output text of the log row, and the
\* output length computed from it, are those of the assistant text appended
\* to the history for that exchange, in every variant.
C22_LoggedTextIsShownText ==
    (/\ logOutcome.called /\ logOutcome.result
     /\ messages # <<>> /\ messages[Len(messages)].role = "assistant") =>
        LET row == sheet[Len(sheet)]
            shown == messages[Len(messages)].content
        IN  /\ row.kind = "log"
            /\ row.cells[4] = shown
            /\ row.cells[6] = Len(shown)

\* C23: in new-frontend.py the 'processing' flag guards single handling of
\* each query: once the script is at rest the flag is absent from the session
\* state, whatever path the handling took, and the history does not end with
\* a user entry left unanswered, also after a Logout or a Clear Chat that is
\* followed by new input.
C23_ProcessingGuardsHandling ==
    (variant = "newfrontend" /\ pc = "idle") =>
        /\ ~processing
        /\ messages # <<>> => messages[Len(messages)].role # "user"

====
